---- MODULE Spec2Model ----
(***************************************************************************)
(* Oceanova: the login route handler, the contact route handler, the       *)
(* species_observations seed script, the application's MongoDB connection  *)
(* module and the contact page, as state machines.                         *)
(*                                                                         *)
(* Strings are sequences of one-character strings, so that trim,           *)
(* toLowerCase and the e-mail regular expression are computed character by *)
(* character.  A JSON value is a record [t, s]: t is its type and s the    *)
(* characters of a string value.                                           *)
(***************************************************************************)
EXTENDS Naturals, Sequences, FiniteSets

VARIABLES
    \* ---- POST /api/login ----
    users,          \* the user collection: a set of user documents
    req,            \* the request being handled
    pc,             \* the handler's position
    normalizedEmail,\* const normalizedEmail
    user,           \* const user (the document findOne returned, or null)
    token,          \* const token (the signed JWT, or none)
    response,       \* the NextResponse the handler returned, or none
    thrown,         \* the step whose exception the catch block caught
    signCalls,      \* number of jwt.sign calls made for this request
    sent,           \* number of responses returned for this request
    last,           \* history: the previous request and the response it got
    \* ---- POST /api/contact ----
    creq,           \* the request being handled
    cpc,            \* the handler's position
    payload,        \* the argument of the sendContactEmail call, or none
    emailResult,    \* how the sendContactEmail call ended
    sendCalls,      \* number of sendContactEmail calls made for this request
    cresponse,      \* the NextResponse the handler returned, or none
    cthrown,        \* the step whose exception the catch block caught
    csent,          \* number of responses returned for this request
    \* ---- scripts/seed-observations.js ----
    envUri,         \* process.env.MONGODB_URI
    envDb,          \* process.env.MONGODB_DB
    spc,            \* main's position
    dbName,         \* let dbName
    clientState,    \* the MongoClient: "none", "created", "connected", "closed"
    indexesCreated, \* the Promise.all of the createIndex calls has resolved
    iLoop,          \* the loop counter i
    docs,           \* docs.length
    insertCalls,    \* number of insertMany calls of this run
    insertArg,      \* number of documents the insertMany call carried
    seedDone,       \* "[seed] Done." was logged
    exitCode,       \* the exit code of the process ("unset" while it is 0)
    ops,            \* the driver calls this run made, each with its outcome
    collection,     \* species_observations: documents in it, by the run
                    \* that inserted them (0: there before the first run)
    run,            \* the number of this run of the script
    successRuns,    \* runs whose insertMany resolved
    \* ---- lib/mongodb.ts ----
    mpc,            \* the module: "off", "unloaded", "loaded", "failed"
    cleanedUri,     \* const CLEANED_MONGODB_URI
    cachedConn,     \* cached.conn: 0 is null, else the attempt that gave it
    cachedPromise,  \* cached.promise: 0 is null, else the attempt's number
    attempts,       \* each mongoose.connect promise: "none", "pending",
                    \* "resolved", "rejected"
    connectCalls,   \* number of mongoose.connect calls made
    reactions,      \* per promise, the connectDB calls suspended on it, in
                    \* the order their awaits registered
    jobs,           \* the microtask queue: the continuations due to run
    cstate,         \* each connectDB caller: "idle", "await", "returned",
                    \* "threw"
    got,            \* what each caller's last call returned (0: nothing)
    awaits,         \* the promise each caller's last call awaited (0: none)
    \* ---- one document of the seed script's loop ----
    rnd,            \* the value Math.random() gave, in RandSteps-ths
    doc,            \* the document pushed, or none
    \* ---- app/contact/page.tsx ----
    jar,            \* the request's cookies: name -> value or undefined
    ppc,            \* ContactPage: "off", "request", "redirected", "rendered"
    location,       \* the target of the redirect, or "none"
    rendered        \* the components the page returned

loginVars == <<users, req, pc, normalizedEmail, user, token, response, thrown,
               signCalls, sent, last>>

contactVars == <<creq, cpc, payload, emailResult, sendCalls, cresponse, cthrown,
                 csent>>

seedVars == <<envUri, envDb, spc, dbName, clientState, indexesCreated, iLoop, docs,
              insertCalls, insertArg, seedDone, exitCode, ops, collection, run,
              successRuns>>

appVars == <<mpc, cleanedUri, cachedConn, cachedPromise, attempts, connectCalls,
             reactions, jobs, cstate, got, awaits>>

docVars == <<rnd, doc>>

pageVars == <<jar, ppc, location, rendered>>

vars == <<loginVars, contactVars, seedVars, appVars, docVars, pageVars>>

----------------------------------------------------------------------------
(* Bounds *)

\* longest e-mail string a login request carries
MaxLen == 2

\* longest e-mail string a contact request carries
MaxContactLen == 5

\* longest query string of a MONGODB_URI
MaxQueryLen == 2

\* requests that call connectDB
MaxCallers == 2

\* mongoose.connect calls
MaxAttempts == 2

\* the values Math.random() is drawn from: k / RandSteps, 0 <= k < RandSteps
RandSteps == 140

\* longest cookie value
MaxCookieLen == 2

\* runs of the seed script against the same collection
MaxRuns == 2

\* documents in species_observations before the first run
PreExisting == 3

----------------------------------------------------------------------------
(* JSON values and JavaScript string operations *)

Undef == [t |-> "undefined", s |-> <<>>]
Str(s) == [t |-> "string", s |-> s]
\* a JSON number other than 0 (truthy, not a string)
Num == [t |-> "number", s |-> <<>>]

\* the mutant: only undefined counts as missing
TruthyUnlessUndefined(v) == v.t # "undefined"

\* JavaScript truthiness (!v is its negation): undefined and "" are falsy,
\* every other string and every non-zero number is truthy.
Truthy(v) == \/ v.t = "number"
             \/ v.t = "string" /\ v.s # <<>>

\* String(v): a string is itself; the number prints as one digit.
StringOf(v) == IF v.t = "string" THEN v.s
               ELSE IF v.t = "number" THEN <<"7">> ELSE
                    <<"u","n","d","e","f","i","n","e","d">>

IsSpace(c) == c = " "

RECURSIVE TrimStart(_)
TrimStart(s) == IF s # <<>> /\ IsSpace(Head(s)) THEN TrimStart(Tail(s)) ELSE s

RECURSIVE TrimEnd(_)
TrimEnd(s) == IF s # <<>> /\ IsSpace(s[Len(s)])
              THEN TrimEnd(SubSeq(s, 1, Len(s) - 1)) ELSE s

\* String.prototype.trim
Trim(s) == TrimEnd(TrimStart(s))

LowerChar(c) == IF c = "A" THEN "a" ELSE c

\* String.prototype.toLowerCase
ToLowerCase(s) == [i \in 1..Len(s) |-> LowerChar(s[i])]

NormalizeNoLower(email) == Trim(StringOf(email))

\* const normalizedEmail = String(email).trim().toLowerCase()
NormalizeEmail(email) == ToLowerCase(Trim(StringOf(email)))

----------------------------------------------------------------------------
(* The login request's inputs *)

EmailChars == {"a", "A", " "}

RECURSIVE StringsUpTo(_, _)
StringsUpTo(chars, n) ==
    IF n = 0 THEN {<<>>}
    ELSE LET shorter == StringsUpTo(chars, n - 1)
         IN  shorter \cup {Append(s, c) : s \in shorter, c \in chars}

EmailValues == {Undef} \cup {Str(s) : s \in StringsUpTo(EmailChars, MaxLen)}

PasswordValues == {Undef, Num, Str(<<>>), Str(<<"p">>), Str(<<"q">>)}

\* req.json() rejects for a malformed body, and destructuring the JSON value
\* null throws; an object body carries the two fields (absent = undefined).
LoginRequests ==
    {[body |-> b, email |-> Undef, password |-> Undef] : b \in {"malformed", "null"}}
    \cup {[body |-> "object", email |-> e, password |-> p] :
              e \in EmailValues, p \in PasswordValues}

\* bcrypt hash of a password: a non-empty string that only that password matches
Hash(p) == <<"$">> \o p

NoRequest == [body |-> "none", email |-> Undef, password |-> Undef]
NullUser == [id |-> 0, email |-> <<>>, password |-> Undef]
NoToken == [id |-> 0, email |-> <<>>]
NoLast == [seen |-> FALSE, req |-> NoRequest, status |-> 0, userId |-> 0,
           thrown |-> "none"]
NoResponse == [status |-> 0, message |-> "", cookie |-> "none", token |-> NoToken,
               httpOnly |-> FALSE, userId |-> 0]

\* user documents a collection may hold; e-mail is unique within a collection.
\* Document 2 was created by Google Sign-In and has no password; document 3
\* holds the hash of the empty password; document 4 stores an e-mail that is
\* not lower-cased.
UserPool == {
    [id |-> 1, email |-> <<"a">>,      password |-> Str(Hash(<<"p">>))],
    [id |-> 2, email |-> <<"a">>,      password |-> Undef],
    [id |-> 3, email |-> <<"a", "a">>, password |-> Str(Hash(<<>>))],
    [id |-> 4, email |-> <<"A">>,      password |-> Str(Hash(<<"p">>))] }

UserDBs == {db \in SUBSET UserPool :
               \A u1, u2 \in db : u1.email = u2.email => u1 = u2}

----------------------------------------------------------------------------
(* Collaborators of the login handler *)

\* users.findOne({ email }): the document stored under that e-mail, or null
FindOne(db, email) ==
    IF \E u \in db : u.email = email
    THEN CHOOSE u \in db : u.email = email
    ELSE NullUser

\* bcrypt.compare(password, hash) rejects unless both arguments are strings
BcryptCompareThrows(password, hash) ==
    password.t # "string" \/ hash.t # "string"

BcryptCompareAlwaysTrue(password, hash) == TRUE

\* bcrypt.compare(password, hash) for two strings
BcryptCompare(password, hash) == hash.s = Hash(password.s)

\* jwt.sign({ id, email }, JWT_SECRET, { expiresIn: "1h" })
JwtSign(u) == [id |-> u.id, email |-> u.email]

\* NextResponse.json({ message }, { status })
JsonResponse(status, message) ==
    [NoResponse EXCEPT !.status = status, !.message = message]

----------------------------------------------------------------------------
(* POST /api/login *)

\* return <response>: the handler ends with this response
Return(r, caught) ==
    /\ response' = r
    /\ thrown' = caught
    /\ sent' = sent + 1
    /\ pc' = "done"

\* the mutant: the exception escapes the handler and no response is returned
CatchNothing(step) ==
    /\ thrown' = step
    /\ pc' = "crashed"
    /\ UNCHANGED <<response, sent>>

\* catch (error) { ... return 500 }
Catch(step) == Return(JsonResponse(500, "Internal server error"), step)

\* the handler's locals are fresh for every call
FreshLocals ==
    /\ pc' = "parse"
    /\ normalizedEmail' = <<>>
    /\ user' = NullUser
    /\ token' = NoToken
    /\ response' = NoResponse
    /\ thrown' = "none"
    /\ signCalls' = 0
    /\ sent' = 0
    /\ UNCHANGED users

\* a request arrives
LoginReceive ==
    /\ pc = "idle"
    /\ \E r \in LoginRequests : req' = r
    /\ FreshLocals
    /\ UNCHANGED last

\* const { email, password } = await req.json(); the missing-field check;
\* the normalisation of the e-mail
LoginParse ==
    /\ pc = "parse"
    /\ IF req.body # "object"
       THEN Catch("json") /\ UNCHANGED normalizedEmail
       ELSE IF ~Truthy(req.email) \/ ~Truthy(req.password)
       THEN /\ Return(JsonResponse(400, "Missing email or password"), "none")
            /\ UNCHANGED normalizedEmail
       ELSE /\ normalizedEmail' = NormalizeEmail(req.email)
            /\ pc' = "lookup"
            /\ UNCHANGED <<response, thrown, sent>>
    /\ UNCHANGED <<users, req, user, token, signCalls, last>>

\* getUserCollection(), users.findOne, the null check and the no-password check
LoginLookup ==
    /\ pc = "lookup"
    /\ \E dbFails \in BOOLEAN :
         IF dbFails
         THEN Catch("lookup") /\ UNCHANGED user
         ELSE LET found == FindOne(users, normalizedEmail) IN
              /\ user' = found
              /\ IF found = NullUser
                 THEN Return(JsonResponse(401, "Invalid credentials"), "none")
                 ELSE IF ~Truthy(found.password)
                 THEN Return(JsonResponse(400, "This account uses Google Sign-In"), "none")
                 ELSE /\ pc' = "compare"
                      /\ UNCHANGED <<response, thrown, sent>>
    /\ UNCHANGED <<users, req, normalizedEmail, token, signCalls, last>>

\* the mutant: an invalid password is let through
LoginCompareNoReject ==
    /\ pc = "compare"
    /\ IF BcryptCompareThrows(req.password, user.password)
       THEN Catch("compare")
       ELSE /\ pc' = "sign"
            /\ UNCHANGED <<response, thrown, sent>>
    /\ UNCHANGED <<users, req, normalizedEmail, user, token, signCalls, last>>

\* const isPasswordValid = await bcrypt.compare(...); if (!isPasswordValid) 401
LoginCompare ==
    /\ pc = "compare"
    /\ IF BcryptCompareThrows(req.password, user.password)
       THEN Catch("compare")
       ELSE IF ~BcryptCompare(req.password, user.password)
       THEN Return(JsonResponse(401, "Invalid credentials"), "none")
       ELSE /\ pc' = "sign"
            /\ UNCHANGED <<response, thrown, sent>>
    /\ UNCHANGED <<users, req, normalizedEmail, user, token, signCalls, last>>

\* the mutant: the 200 response is returned without the cookie
LoginSignNoCookie ==
    /\ pc = "sign"
    /\ signCalls' = signCalls + 1
    /\ \E signFails \in BOOLEAN :
         IF signFails
         THEN Catch("sign") /\ UNCHANGED token
         ELSE /\ token' = JwtSign(user)
              /\ Return([JsonResponse(200, "Login successful")
                            EXCEPT !.userId = user.id], "none")
    /\ UNCHANGED <<users, req, normalizedEmail, user, last>>

\* jwt.sign, the 200 response, response.cookies.set("auth_token", token, ...)
LoginSign ==
    /\ pc = "sign"
    /\ signCalls' = signCalls + 1
    /\ \E signFails \in BOOLEAN :
         IF signFails
         THEN Catch("sign") /\ UNCHANGED token
         ELSE /\ token' = JwtSign(user)
              /\ Return([status |-> 200, message |-> "Login successful",
                         cookie |-> "auth_token", token |-> JwtSign(user),
                         httpOnly |-> TRUE, userId |-> user.id], "none")
    /\ UNCHANGED <<users, req, normalizedEmail, user, last>>

----------------------------------------------------------------------------
(* Two requests in a row against the same collection *)

SameLetter(c, d) == c = d \/ {c, d} = {"a", "A"}

AllSpaces(s, from, to) == \A i \in from..to : s[i] = " "

\* s and t are the same letters, up to letter case, inside leading and
\* trailing whitespace
DifferOnlyInCaseOrPadding(s, t) ==
    \E a1 \in 1..(Len(s) + 1) :
      /\ AllSpaces(s, 1, a1 - 1)
      /\ \E n \in 0..(Len(s) + 1 - a1) :
           /\ n <= Len(t)
           /\ AllSpaces(s, a1 + n, Len(s))
           /\ \E a2 \in 1..(Len(t) + 1 - n) :
                /\ AllSpaces(t, 1, a2 - 1)
                /\ AllSpaces(t, a2 + n, Len(t))
                /\ \A i \in 0..(n - 1) : SameLetter(s[a1 + i], t[a2 + i])

\* the same request up to the case and the padding of its e-mail
SameUpToEmailForm(r1, r2) ==
    /\ r1.body = r2.body
    /\ r1.password = r2.password
    /\ r1.email.t = r2.email.t
    /\ DifferOnlyInCaseOrPadding(r1.email.s, r2.email.s)

\* the next request repeats the one just answered, its e-mail written in
\* another case or with other padding; the answered one is remembered
LoginReceiveAgain ==
    /\ pc = "done"
    /\ \E r \in LoginRequests :
         /\ SameUpToEmailForm(req, r)
         /\ req' = r
    /\ last' = [seen |-> TRUE, req |-> req, status |-> response.status,
                userId |-> response.userId, thrown |-> thrown]
    /\ FreshLocals

LoginInit ==
    /\ users \in UserDBs
    /\ req = NoRequest
    /\ pc = "idle"
    /\ normalizedEmail = <<>>
    /\ user = NullUser
    /\ token = NoToken
    /\ response = NoResponse
    /\ thrown = "none"
    /\ signCalls = 0
    /\ sent = 0
    /\ last = NoLast

\* no login request is ever made
LoginIdle ==
    /\ users = {}
    /\ req = NoRequest
    /\ pc = "off"
    /\ normalizedEmail = <<>>
    /\ user = NullUser
    /\ token = NoToken
    /\ response = NoResponse
    /\ thrown = "none"
    /\ signCalls = 0
    /\ sent = 0
    /\ last = NoLast

----------------------------------------------------------------------------
(* POST /api/contact *)

ContactEmailChars == {"a", "@", ".", " "}

ContactEmailValues ==
    {Undef} \cup {Str(s) : s \in StringsUpTo(ContactEmailChars, MaxContactLen)}

\* a body that is an object: firstName may be absent, empty or given;
\* lastName and message absent or given; institution absent, empty or given
ContactBody(f, l, e, inst, m) ==
    [body |-> "object", firstName |-> f, lastName |-> l, email |-> e,
     institution |-> inst, message |-> m]

NoContactRequest ==
    [body |-> "none", firstName |-> Undef, lastName |-> Undef, email |-> Undef,
     institution |-> Undef, message |-> Undef]

NoPayload == [firstName |-> Undef, lastName |-> Undef, email |-> Undef,
              institution |-> Undef, message |-> Undef]

NotSpecified == Str(<<"N","o","t"," ","s","p","e","c","i","f","i","e","d">>)

\* the character class [^\s@]
NotSpaceNorAt(c) == ~IsSpace(c) /\ c # "@"

\* [^\s@]+ matches s[from..to]
MatchesClassPlus(s, from, to) ==
    from <= to /\ \A k \in from..to : NotSpaceNorAt(s[k])

\* the mutant: the regular expression without the \.[^\s@]+ part
EmailRegexNoDot(s) ==
    \E i \in 1..Len(s) :
        /\ s[i] = "@"
        /\ MatchesClassPlus(s, 1, i - 1)
        /\ MatchesClassPlus(s, i + 1, Len(s))

\* /^[^\s@]+@[^\s@]+\.[^\s@]+$/.test(s)
EmailRegexTest(s) ==
    \E i \in 1..Len(s) :
        /\ s[i] = "@"
        /\ MatchesClassPlus(s, 1, i - 1)
        /\ \E j \in (i + 1)..Len(s) :
              /\ s[j] = "."
              /\ MatchesClassPlus(s, i + 1, j - 1)
              /\ MatchesClassPlus(s, j + 1, Len(s))

\* the mutant: the institution is forwarded as it came
InstitutionAsGiven(v) == v

\* institution || "Not specified"
InstitutionOrDefault(v) == IF Truthy(v) THEN v ELSE NotSpecified

ContactReturn(r, caught) ==
    /\ cresponse' = r
    /\ cthrown' = caught
    /\ csent' = csent + 1
    /\ cpc' = "done"

\* catch (error) { ... return 500 }
ContactCatch(step) ==
    ContactReturn(JsonResponse(500, "Internal server error. Please try again later."),
                  step)

\* a request arrives; the handler's locals are fresh for every call
ContactReceive ==
    /\ cpc = "idle"
    /\ \/ \E b \in {"malformed", "null"} :
             creq' = [NoContactRequest EXCEPT !.body = b]
       \/ \E f \in {Undef, Str(<<>>), Str(<<"f">>)},
             l \in {Undef, Str(<<"l">>)},
             e \in ContactEmailValues,
             inst \in {Undef, Str(<<>>), Str(<<"i">>)},
             m \in {Undef, Str(<<"m">>)} :
             creq' = ContactBody(f, l, e, inst, m)
    /\ cpc' = "validate"
    /\ payload' = NoPayload
    /\ emailResult' = "none"
    /\ sendCalls' = 0
    /\ cresponse' = NoResponse
    /\ cthrown' = "none"
    /\ csent' = 0

\* await request.json(), the required-field check, the e-mail format check
ContactValidate ==
    /\ cpc = "validate"
    /\ IF creq.body # "object"
       THEN ContactCatch("json")
       ELSE IF \/ ~Truthy(creq.firstName) \/ ~Truthy(creq.lastName)
               \/ ~Truthy(creq.email) \/ ~Truthy(creq.message)
       THEN ContactReturn(JsonResponse(400, "All fields are required"), "none")
       ELSE IF ~EmailRegexTest(StringOf(creq.email))
       THEN ContactReturn(JsonResponse(400, "Please enter a valid email address"),
                          "none")
       ELSE /\ cpc' = "send"
            /\ UNCHANGED <<cresponse, cthrown, csent>>
    /\ UNCHANGED <<creq, payload, emailResult, sendCalls>>

\* the mutant: a failed send is answered like a successful one
ContactSendIgnoresResult ==
    /\ cpc = "send"
    /\ sendCalls' = sendCalls + 1
    /\ payload' = [firstName |-> creq.firstName, lastName |-> creq.lastName,
                   email |-> creq.email,
                   institution |-> InstitutionOrDefault(creq.institution),
                   message |-> creq.message]
    /\ \E outcome \in {"success", "failure", "throw"} :
         /\ emailResult' = outcome
         /\ IF outcome = "throw"
            THEN ContactCatch("send")
            ELSE ContactReturn(JsonResponse(200, "Message sent successfully!"), "none")
    /\ UNCHANGED creq

\* const emailResult = await sendContactEmail({...}); the success check; the
\* 200 response
ContactSend ==
    /\ cpc = "send"
    /\ sendCalls' = sendCalls + 1
    /\ payload' = [firstName |-> creq.firstName, lastName |-> creq.lastName,
                   email |-> creq.email,
                   institution |-> InstitutionOrDefault(creq.institution),
                   message |-> creq.message]
    /\ \E outcome \in {"success", "failure", "throw"} :
         /\ emailResult' = outcome
         /\ IF outcome = "throw"
            THEN ContactCatch("send")
            ELSE IF outcome = "failure"
            THEN ContactReturn(
                     JsonResponse(500, "Failed to send message. Please try again."),
                     "none")
            ELSE ContactReturn(JsonResponse(200, "Message sent successfully!"), "none")
    /\ UNCHANGED creq

ContactInit ==
    /\ creq = NoContactRequest
    /\ cpc = "idle"
    /\ payload = NoPayload
    /\ emailResult = "none"
    /\ sendCalls = 0
    /\ cresponse = NoResponse
    /\ cthrown = "none"
    /\ csent = 0

\* no contact request is ever made
ContactIdle ==
    /\ creq = NoContactRequest
    /\ cpc = "off"
    /\ payload = NoPayload
    /\ emailResult = "none"
    /\ sendCalls = 0
    /\ cresponse = NoResponse
    /\ cthrown = "none"
    /\ csent = 0

----------------------------------------------------------------------------
(* scripts/seed-observations.js *)

\* const totalDocs = 100
totalDocs == 100

\* A URI is a string whose scheme, "mongodb://" or "mongodb+srv://", is one
\* symbol; the other symbols are single characters.
Schemes == {"mongodb://", "mongodb+srv://"}

SeedUriValues ==
    {Undef, Str(<<>>),
     Str(<<"mongodb://", "h">>),
     Str(<<"mongodb+srv://", "h", "/", "d">>),
     Str(<<"mongodb://", "h", "/", "d", "?", "o">>)}

SeedDbValues == {Undef, Str(<<>>), Str(<<"e">>)}

\* function getEnv(name, fallback) with no fallback given
GetEnv(v) == IF v = Undef \/ v = Str(<<>>) THEN Undef ELSE v

\* index of the first c in s, 0 when there is none
IndexOf(s, c) ==
    IF \E k \in 1..Len(s) : s[k] = c
    THEN CHOOSE k \in 1..Len(s) : s[k] = c /\ \A j \in 1..(k - 1) : s[j] # c
    ELSE 0

\* String.prototype.split(c)
RECURSIVE Split(_, _)
Split(s, c) ==
    LET k == IndexOf(s, c) IN
    IF k = 0 THEN <<s>>
    ELSE <<SubSeq(s, 1, k - 1)>> \o Split(SubSeq(s, k + 1, Len(s)), c)

\* uri.replace(/^mongodb(\+srv)?:\/\//, "")
StripScheme(s) == IF s # <<>> /\ Head(s) \in Schemes THEN Tail(s) ELSE s

\* function getDbNameFromUri(uri): the name, or null (here undefined)
GetDbNameFromUri(uri) ==
    LET afterProtocol == StripScheme(uri)
        parts == Split(afterProtocol, "/")
        path == IF Len(parts) >= 2 THEN parts[2] ELSE <<>>
        db == Split(path, "?")[1]
    IN  IF db # <<>> THEN Str(db) ELSE Undef

\* what an insertMany that fails may have inserted before it failed (an
\* insertMany of no documents is rejected)
PartialInserts(n) == {k \in {0, 1, n - 1} : k < n}

\* the operations a run has issued are forgotten when the next one starts
FreshRun ==
    /\ spc' = "start"
    /\ dbName' = Undef
    /\ clientState' = "none"
    /\ indexesCreated' = FALSE
    /\ iLoop' = 0
    /\ docs' = 0
    /\ insertCalls' = 0
    /\ insertArg' = 0
    /\ seedDone' = FALSE
    /\ exitCode' = "unset"
    /\ ops' = <<>>

\* the checks of MONGODB_URI and of the database name; new MongoClient(uri)
SeedStart ==
    /\ spc = "start"
    /\ LET uri == GetEnv(envUri) IN
       IF ~Truthy(uri)
       THEN /\ exitCode' = "1"
            /\ spc' = "exited"
            /\ UNCHANGED <<dbName, clientState>>
       ELSE LET fromUri == GetDbNameFromUri(uri.s)
                name == IF Truthy(fromUri) THEN fromUri ELSE GetEnv(envDb)
            IN  /\ dbName' = name
                /\ IF ~Truthy(name)
                   THEN /\ exitCode' = "1"
                        /\ spc' = "exited"
                        /\ UNCHANGED clientState
                   ELSE /\ clientState' = "created"
                        /\ spc' = "connect"
                        /\ UNCHANGED exitCode
    /\ UNCHANGED <<envUri, envDb, indexesCreated, iLoop, docs, insertCalls, insertArg,
                   seedDone, ops, collection, run, successRuns>>

\* the mutant: catch (err) { process.exit(1) }
SeedCatchExits ==
    /\ exitCode' = "1"
    /\ spc' = "exited"

\* catch (err) { process.exitCode = 1 }, then the finally block is next
SeedCatch ==
    /\ exitCode' = "1"
    /\ spc' = "close"

\* await client.connect(); client.db(dbName); db.collection(...)
SeedConnect ==
    /\ spc = "connect"
    /\ \E ok \in BOOLEAN :
         /\ ops' = Append(ops, [op |-> "connect", ok |-> ok])
         /\ IF ok
            THEN /\ clientState' = "connected"
                 /\ spc' = "index"
                 /\ UNCHANGED exitCode
            ELSE SeedCatch /\ UNCHANGED clientState
    /\ UNCHANGED <<envUri, envDb, dbName, indexesCreated, iLoop, docs, insertCalls,
                   insertArg, seedDone, collection, run, successRuns>>

\* await Promise.all([col.createIndex(...) x 3]); const docs = []
SeedCreateIndexes ==
    /\ spc = "index"
    /\ \E ok \in BOOLEAN :
         /\ ops' = Append(ops, [op |-> "createIndex", ok |-> ok])
         /\ IF ok
            THEN /\ indexesCreated' = TRUE
                 /\ spc' = "generate"
                 /\ iLoop' = 0
                 /\ docs' = 0
                 /\ UNCHANGED exitCode
            ELSE SeedCatch /\ UNCHANGED <<indexesCreated, iLoop, docs>>
    /\ UNCHANGED <<envUri, envDb, dbName, clientState, insertCalls, insertArg,
                   seedDone, collection, run, successRuns>>

\* the mutant: for (let i = 0; i <= totalDocs; i++)
LoopContinuesInclusive == iLoop <= totalDocs

\* i < totalDocs
LoopContinues == iLoop < totalDocs

\* one iteration of the loop: docs.push({...}); i++
SeedPushDoc ==
    /\ spc = "generate"
    /\ LoopContinues
    /\ docs' = docs + 1
    /\ iLoop' = iLoop + 1
    /\ UNCHANGED <<envUri, envDb, spc, dbName, clientState, indexesCreated,
                   insertCalls, insertArg, seedDone, exitCode, ops, collection, run,
                   successRuns>>

\* the loop has ended: await col.insertMany(docs); the "Done" message
SeedInsertMany ==
    /\ spc = "generate"
    /\ ~LoopContinues
    /\ insertCalls' = insertCalls + 1
    /\ insertArg' = docs
    /\ \E ok \in {b \in BOOLEAN : b => docs > 0} :
         /\ ops' = Append(ops, [op |-> "insertMany", ok |-> ok])
         /\ IF ok
            THEN /\ collection' = [collection EXCEPT ![run] = @ + docs]
                 /\ successRuns' = successRuns + 1
                 /\ seedDone' = TRUE
                 /\ spc' = "close"
                 /\ UNCHANGED exitCode
            ELSE /\ \E k \in PartialInserts(docs) \cup {0} :
                       collection' = [collection EXCEPT ![run] = @ + k]
                 /\ SeedCatch
                 /\ UNCHANGED <<successRuns, seedDone>>
    /\ UNCHANGED <<envUri, envDb, dbName, clientState, indexesCreated, iLoop, docs, run>>

\* finally { await client.close() }; main returns and the process exits
SeedClose ==
    /\ spc = "close"
    /\ clientState' = "closed"
    /\ ops' = Append(ops, [op |-> "close", ok |-> TRUE])
    /\ spc' = "exited"
    /\ UNCHANGED <<envUri, envDb, dbName, indexesCreated, iLoop, docs, insertCalls,
                   insertArg, seedDone, exitCode, collection, run, successRuns>>

\* node scripts/seed-observations.js is run again, in the same environment
SeedRunAgain ==
    /\ spc = "exited"
    /\ run < MaxRuns
    /\ run' = run + 1
    /\ FreshRun
    /\ UNCHANGED <<envUri, envDb, collection, successRuns>>

SeedInit ==
    /\ envUri \in SeedUriValues
    /\ envDb \in SeedDbValues
    /\ spc = "start"
    /\ dbName = Undef
    /\ clientState = "none"
    /\ indexesCreated = FALSE
    /\ iLoop = 0
    /\ docs = 0
    /\ insertCalls = 0
    /\ insertArg = 0
    /\ seedDone = FALSE
    /\ exitCode = "unset"
    /\ ops = <<>>
    /\ collection = [r \in 0..MaxRuns |-> IF r = 0 THEN PreExisting ELSE 0]
    /\ run = 1
    /\ successRuns = 0

\* the script is never run
SeedIdle ==
    /\ envUri = Undef
    /\ envDb = Undef
    /\ spc = "off"
    /\ dbName = Undef
    /\ clientState = "none"
    /\ indexesCreated = FALSE
    /\ iLoop = 0
    /\ docs = 0
    /\ insertCalls = 0
    /\ insertArg = 0
    /\ seedDone = FALSE
    /\ exitCode = "unset"
    /\ ops = <<>>
    /\ collection = [r \in 0..MaxRuns |-> 0]
    /\ run = 1
    /\ successRuns = 0

----------------------------------------------------------------------------
(* lib/mongodb.ts: the connection string and connectDB *)

\* the options of a query string and the characters of a database name;
\* the key of the option tlsMinVersion is one symbol
QueryChars == {"o", "/", "&", "tlsMinVersion"}

\* the values MONGODB_URI is drawn from: unset, empty, and every connection
\* string scheme host [/ [db]] [? query]
UriInputs ==
    {Undef, Str(<<>>)} \cup
    {Str(<<scheme, "h">> \o path \o query) :
        scheme \in Schemes,
        path \in {<<>>, <<"/">>, <<"/", "d">>},
        query \in {<<>>} \cup {<<"?">> \o q : q \in StringsUpTo(QueryChars, MaxQueryLen)}}

\* key.toLowerCase() of an option's key
LowerKey(s) ==
    [k \in 1..Len(s) |-> IF s[k] = "tlsMinVersion" THEN "tlsminversion" ELSE LowerChar(s[k])]

\* the options stripUnsupportedMongoOptions filters out
IsUnsupportedOption(p) ==
    LowerKey(Split(p, "=")[1]) \in {<<"tlsminversion">>, <<"tlsversion">>, <<"sslminversion">>}

\* Array.prototype.filter with the predicate of stripUnsupportedMongoOptions
RECURSIVE FilterSupported(_)
FilterSupported(ps) ==
    IF ps = <<>> THEN <<>>
    ELSE IF IsUnsupportedOption(Head(ps)) THEN FilterSupported(Tail(ps))
         ELSE <<Head(ps)>> \o FilterSupported(Tail(ps))

\* Array.prototype.join(c)
RECURSIVE Join(_, _)
Join(ps, c) ==
    IF ps = <<>> THEN <<>>
    ELSE IF Len(ps) = 1 THEN ps[1]
         ELSE ps[1] \o <<c>> \o Join(Tail(ps), c)

\* function stripUnsupportedMongoOptions(uri)
StripUnsupportedMongoOptions(uri) ==
    LET idx == IndexOf(uri, "?") IN
    IF idx = 0 THEN uri
    ELSE LET base == SubSeq(uri, 1, idx - 1)
             query == SubSeq(uri, idx + 1, Len(uri))
             keep == FilterSupported(Split(query, "&"))
         IN  IF Len(keep) # 0 THEN base \o <<"?">> \o Join(keep, "&") ELSE base

\* function ensureDbInUri(uri, dbName); dbName is MONGODB_DB as it is in
\* the environment
EnsureDbInUri(uri, name) ==
    IF ~Truthy(name) THEN uri
    ELSE LET qIdx == IndexOf(uri, "?")
             base == IF qIdx = 0 THEN uri ELSE SubSeq(uri, 1, qIdx - 1)
             query == IF qIdx = 0 THEN <<>> ELSE SubSeq(uri, qIdx, Len(uri))
         IN  IF ~(base # <<>> /\ Head(base) \in Schemes) THEN uri
             ELSE LET proto == Head(base)
                      rest == Tail(base)
                      slashIdx == IndexOf(rest, "/")
                      hasDb == slashIdx # 0 /\ Len(rest) - slashIdx > 0
                      hostPart == IF slashIdx = 0 THEN rest
                                  ELSE SubSeq(rest, 1, slashIdx - 1)
                  IN  IF hasDb THEN uri
                      ELSE <<proto>> \o hostPart \o <<"/">> \o name.s \o query

\* the database mongoose.connect(uri) opens: the path of the connection
\* string, between the "/" that ends the hosts and the "?" that starts the
\* options; undefined when the string names none
DbOfUri(uri) ==
    LET qIdx == IndexOf(uri, "?")
        base == IF qIdx = 0 THEN uri ELSE SubSeq(uri, 1, qIdx - 1)
        rest == StripScheme(base)
        slashIdx == IndexOf(rest, "/")
        db == IF slashIdx = 0 THEN <<>> ELSE SubSeq(rest, slashIdx + 1, Len(rest))
    IN  IF db # <<>> THEN Str(db) ELSE Undef

Callers == 1..MaxCallers

Attempts == 1..MaxAttempts

NoConnectState ==
    /\ cachedConn = 0
    /\ cachedPromise = 0
    /\ attempts = [p \in Attempts |-> "none"]
    /\ connectCalls = 0
    /\ reactions = [p \in Attempts |-> <<>>]
    /\ jobs = <<>>
    /\ cstate = [c \in Callers |-> "idle"]
    /\ got = [c \in Callers |-> 0]
    /\ awaits = [c \in Callers |-> 0]

connectVars == <<cachedConn, cachedPromise, attempts, connectCalls, reactions, jobs,
                 cstate, got, awaits>>

\* the module is evaluated: MONGODB_URI is checked, CLEANED_MONGODB_URI is
\* computed and cached is { conn: null, promise: null }
AppLoad ==
    /\ mpc = "unloaded"
    /\ IF ~Truthy(envUri)
       THEN /\ mpc' = "failed"
            /\ UNCHANGED cleanedUri
       ELSE /\ cleanedUri' =
                  Str(StripUnsupportedMongoOptions(EnsureDbInUri(envUri.s, envDb)))
            /\ mpc' = "loaded"
    /\ UNCHANGED connectVars

\* the mutant: mongoose.connect is called whenever there is no connection
ConnectsAnyway == TRUE

\* if (!cached.promise)
NoCachedPromise == cachedPromise = 0

\* a call of connectDB, up to its return or to its await: the connection
\* that is cached is returned; else mongoose.connect is called unless a
\* promise is cached, and the call is suspended on the cached promise.  Its
\* continuation is a job at once when that promise is already settled.  A
\* call is made by a request handler, which runs when no job is queued.
ConnectDB(c) ==
    /\ mpc = "loaded"
    /\ jobs = <<>>
    /\ cstate[c] # "await"
    /\ IF cachedConn # 0
       THEN /\ cstate' = [cstate EXCEPT ![c] = "returned"]
            /\ got' = [got EXCEPT ![c] = cachedConn]
            /\ awaits' = [awaits EXCEPT ![c] = 0]
            /\ UNCHANGED <<cachedConn, cachedPromise, attempts, connectCalls,
                           reactions, jobs>>
       ELSE /\ NoCachedPromise => connectCalls < MaxAttempts
            /\ LET fresh == NoCachedPromise
                   p == IF fresh THEN connectCalls + 1 ELSE cachedPromise
                   state == IF fresh THEN "pending" ELSE attempts[p]
               IN  /\ cachedPromise' = p
                   /\ attempts' = [attempts EXCEPT ![p] = state]
                   /\ connectCalls' = IF fresh THEN connectCalls + 1 ELSE connectCalls
                   /\ awaits' = [awaits EXCEPT ![c] = p]
                   /\ IF state = "pending"
                      THEN /\ reactions' = [reactions EXCEPT ![p] = Append(@, c)]
                           /\ UNCHANGED jobs
                      ELSE /\ jobs' = Append(jobs, [caller |-> c, promise |-> p])
                           /\ UNCHANGED reactions
            /\ cstate' = [cstate EXCEPT ![c] = "await"]
            /\ got' = [got EXCEPT ![c] = 0]
            /\ UNCHANGED cachedConn
    /\ UNCHANGED <<mpc, cleanedUri>>

\* the promise of a mongoose.connect call settles: the continuations of the
\* calls suspended on it become jobs, in the order they registered
Settle(p, ok) ==
    /\ attempts[p] = "pending"
    /\ jobs = <<>>
    /\ attempts' = [attempts EXCEPT ![p] = IF ok THEN "resolved" ELSE "rejected"]
    /\ jobs' = [k \in 1..Len(reactions[p]) |->
                  [caller |-> reactions[p][k], promise |-> p]]
    /\ reactions' = [reactions EXCEPT ![p] = <<>>]
    /\ UNCHANGED <<mpc, cleanedUri, cachedConn, cachedPromise, connectCalls, cstate,
                   got, awaits>>

\* the mutant: the catch block leaves cached.promise as it is
CatchKeepsPromise(p) == p

\* catch (e) { cached.promise = null; ... }
CatchResetsPromise(p) == 0

\* the first job runs: connectDB resumes after its await, with
\* cached.conn = <the value>; return cached.conn, or in its catch block
Resume ==
    /\ jobs # <<>>
    /\ LET c == Head(jobs).caller
           p == Head(jobs).promise
       IN  IF attempts[p] = "resolved"
           THEN /\ cachedConn' = p
                /\ cstate' = [cstate EXCEPT ![c] = "returned"]
                /\ got' = [got EXCEPT ![c] = p]
                /\ UNCHANGED cachedPromise
           ELSE /\ cachedPromise' = CatchResetsPromise(cachedPromise)
                /\ cstate' = [cstate EXCEPT ![c] = "threw"]
                /\ UNCHANGED <<cachedConn, got>>
    /\ jobs' = Tail(jobs)
    /\ UNCHANGED <<mpc, cleanedUri, attempts, connectCalls, reactions, awaits>>

\* the module is about to be imported
AppInit ==
    /\ mpc = "unloaded"
    /\ cleanedUri = Undef
    /\ NoConnectState

\* the module is never imported
AppIdle ==
    /\ mpc = "off"
    /\ cleanedUri = Undef
    /\ NoConnectState

\* the script is not run, in an environment that is set
SeedParked ==
    /\ spc = "off"
    /\ dbName = Undef
    /\ clientState = "none"
    /\ indexesCreated = FALSE
    /\ iLoop = 0
    /\ docs = 0
    /\ insertCalls = 0
    /\ insertArg = 0
    /\ seedDone = FALSE
    /\ exitCode = "unset"
    /\ ops = <<>>
    /\ collection = [r \in 0..MaxRuns |-> 0]
    /\ run = 1
    /\ successRuns = 0

\* the script is about to run for the first time
SeedAtStart ==
    /\ spc = "start"
    /\ dbName = Undef
    /\ clientState = "none"
    /\ indexesCreated = FALSE
    /\ iLoop = 0
    /\ docs = 0
    /\ insertCalls = 0
    /\ insertArg = 0
    /\ seedDone = FALSE
    /\ exitCode = "unset"
    /\ ops = <<>>
    /\ collection = [r \in 0..MaxRuns |-> IF r = 0 THEN PreExisting ELSE 0]
    /\ run = 1
    /\ successRuns = 0

----------------------------------------------------------------------------
(* scripts/seed-observations.js: one document of the loop *)

NoDoc == [waterQuality |-> 0, threatLevel |-> "none"]

RandomDraws == 0..(RandSteps - 1)

\* Math.round(y) for y = n / d, d > 0: the integer nearest to y, a half
\* going up
MathRound(n, d) == (2 * n + d) \div (2 * d)

\* Math.round(randomInRange(2, 9) * 10) / 10, in tenths, where Math.random()
\* gave r / RandSteps: randomInRange(2, 9) * 10 is (70 r + 20 RandSteps) /
\* RandSteps
WaterQuality(r) == MathRound(70 * r + 20 * RandSteps, RandSteps)

\* the mutant: the first threshold is 7.0
PickThreatLowFrom70(wq) ==
    IF wq >= 70 THEN "low"
    ELSE IF wq >= 55 THEN "medium"
    ELSE IF wq >= 35 THEN "high"
    ELSE "critical"

\* function pickThreatByWaterQuality(wq), wq in tenths
PickThreatByWaterQuality(wq) ==
    IF wq >= 75 THEN "low"
    ELSE IF wq >= 55 THEN "medium"
    ELSE IF wq >= 35 THEN "high"
    ELSE "critical"

\* const waterQuality = ...; const threatLevel = ...; docs.push({...})
MakeDoc ==
    /\ doc = NoDoc
    /\ rnd \in RandomDraws
    /\ LET waterQuality == WaterQuality(rnd)
           threatLevel == PickThreatByWaterQuality(waterQuality)
       IN  doc' = [waterQuality |-> waterQuality, threatLevel |-> threatLevel]
    /\ UNCHANGED rnd

\* the next iteration draws again
NextDoc ==
    /\ doc # NoDoc
    /\ rnd' \in RandomDraws
    /\ doc' = NoDoc

DocInit ==
    /\ rnd \in RandomDraws
    /\ doc = NoDoc

\* no document is being made
DocIdle ==
    /\ rnd = 0
    /\ doc = [waterQuality |-> 0, threatLevel |-> "off"]

----------------------------------------------------------------------------
(* app/contact/page.tsx: ContactPage *)

CookieNames == {"auth_token", "theme"}

CookieChars == {"x", "."}

CookieValues == {Undef} \cup {Str(s) : s \in StringsUpTo(CookieChars, MaxCookieLen)}

\* cookies().get(name)?.value
CookieValue(name) == jar[name]

\* the mutant: the cookie need only be there
CookieIsThere(v) == v # Undef

\* if (!authToken) is not taken
HasAuthToken(v) == Truthy(v)

\* ContactPage(): redirect("/try") throws, so nothing is returned after it
ContactPage ==
    /\ ppc = "request"
    /\ LET authToken == CookieValue("auth_token") IN
       IF ~HasAuthToken(authToken)
       THEN /\ ppc' = "redirected"
            /\ location' = "/try"
            /\ UNCHANGED rendered
       ELSE /\ ppc' = "rendered"
            /\ rendered' = {"BubbleCursor", "HomeButton", "ContactSection"}
            /\ UNCHANGED location
    /\ UNCHANGED jar

\* the next request for /contact, with the cookies it carries
PageRequest ==
    /\ ppc \in {"redirected", "rendered"}
    /\ jar' \in [CookieNames -> CookieValues]
    /\ ppc' = "request"
    /\ location' = "none"
    /\ rendered' = {}

PageInit ==
    /\ jar \in [CookieNames -> CookieValues]
    /\ ppc = "request"
    /\ location = "none"
    /\ rendered = {}

\* the page is never requested
PageIdle ==
    /\ jar = [n \in CookieNames |-> Undef]
    /\ ppc = "off"
    /\ location = "none"
    /\ rendered = {}

----------------------------------------------------------------------------
(* Specifications *)

Init == LoginInit /\ ContactIdle /\ SeedIdle /\ AppIdle /\ DocIdle /\ PageIdle

Next ==
    \/ LoginReceive /\ UNCHANGED <<contactVars, seedVars, appVars, docVars, pageVars>>
    \/ LoginParse /\ UNCHANGED <<contactVars, seedVars, appVars, docVars, pageVars>>
    \/ LoginLookup /\ UNCHANGED <<contactVars, seedVars, appVars, docVars, pageVars>>
    \/ LoginCompare /\ UNCHANGED <<contactVars, seedVars, appVars, docVars, pageVars>>
    \/ LoginSign /\ UNCHANGED <<contactVars, seedVars, appVars, docVars, pageVars>>

Spec == Init /\ [][Next]_vars

\* one step of the login handler
LoginStep ==
    /\ LoginParse \/ LoginLookup \/ LoginCompare \/ LoginSign
    /\ UNCHANGED <<contactVars, seedVars, appVars, docVars, pageVars>>

NextPair ==
    \/ LoginReceive /\ UNCHANGED <<contactVars, seedVars, appVars, docVars, pageVars>>
    \/ LoginReceiveAgain /\ UNCHANGED <<contactVars, seedVars, appVars, docVars, pageVars>>
    \/ LoginParse /\ UNCHANGED <<contactVars, seedVars, appVars, docVars, pageVars>>
    \/ LoginLookup /\ UNCHANGED <<contactVars, seedVars, appVars, docVars, pageVars>>
    \/ LoginCompare /\ UNCHANGED <<contactVars, seedVars, appVars, docVars, pageVars>>
    \/ LoginSign /\ UNCHANGED <<contactVars, seedVars, appVars, docVars, pageVars>>

SpecPair == Init /\ [][NextPair]_vars

InitContact == LoginIdle /\ ContactInit /\ SeedIdle /\ AppIdle /\ DocIdle /\ PageIdle

NextContact ==
    \/ ContactReceive /\ UNCHANGED <<loginVars, seedVars, appVars, docVars, pageVars>>
    \/ ContactValidate /\ UNCHANGED <<loginVars, seedVars, appVars, docVars, pageVars>>
    \/ ContactSend /\ UNCHANGED <<loginVars, seedVars, appVars, docVars, pageVars>>

SpecContact == InitContact /\ [][NextContact]_vars

\* one step of the contact handler
ContactStep ==
    /\ ContactValidate \/ ContactSend
    /\ UNCHANGED <<loginVars, seedVars, appVars, docVars, pageVars>>

InitSeed == LoginIdle /\ ContactIdle /\ SeedInit /\ AppIdle /\ DocIdle /\ PageIdle

NextSeed ==
    \/ SeedStart /\ UNCHANGED <<loginVars, contactVars, appVars, docVars, pageVars>>
    \/ SeedConnect /\ UNCHANGED <<loginVars, contactVars, appVars, docVars, pageVars>>
    \/ SeedCreateIndexes /\ UNCHANGED <<loginVars, contactVars, appVars, docVars, pageVars>>
    \/ SeedPushDoc /\ UNCHANGED <<loginVars, contactVars, appVars, docVars, pageVars>>
    \/ SeedInsertMany /\ UNCHANGED <<loginVars, contactVars, appVars, docVars, pageVars>>
    \/ SeedClose /\ UNCHANGED <<loginVars, contactVars, appVars, docVars, pageVars>>
    \/ SeedRunAgain /\ UNCHANGED <<loginVars, contactVars, appVars, docVars, pageVars>>

SpecSeed == InitSeed /\ [][NextSeed]_vars

\* one step of a run of the seed script
SeedStep ==
    /\ SeedStart \/ SeedConnect \/ SeedCreateIndexes \/ SeedPushDoc \/ SeedInsertMany
       \/ SeedClose
    /\ UNCHANGED <<loginVars, contactVars, appVars, docVars, pageVars>>

\* the application and the seed script, in the same environment
InitDb ==
    /\ LoginIdle /\ ContactIdle /\ DocIdle /\ PageIdle
    /\ envUri \in UriInputs
    /\ envDb \in SeedDbValues
    /\ SeedAtStart
    /\ AppInit

NextDb ==
    \/ AppLoad /\ UNCHANGED <<loginVars, contactVars, seedVars, docVars, pageVars>>
    \/ SeedStart /\ UNCHANGED <<loginVars, contactVars, appVars, docVars, pageVars>>

SpecDb == InitDb /\ [][NextDb]_vars

InitConnect ==
    /\ LoginIdle /\ ContactIdle /\ DocIdle /\ PageIdle
    /\ envUri \in SeedUriValues
    /\ envDb \in SeedDbValues
    /\ SeedParked
    /\ AppInit

NextConnect ==
    \/ AppLoad /\ UNCHANGED <<loginVars, contactVars, seedVars, docVars, pageVars>>
    \/ \E c \in Callers :
         ConnectDB(c) /\ UNCHANGED <<loginVars, contactVars, seedVars, docVars, pageVars>>
    \/ \E p \in Attempts, ok \in BOOLEAN :
         Settle(p, ok) /\ UNCHANGED <<loginVars, contactVars, seedVars, docVars, pageVars>>
    \/ Resume /\ UNCHANGED <<loginVars, contactVars, seedVars, docVars, pageVars>>

SpecConnect == InitConnect /\ [][NextConnect]_vars

InitDoc == LoginIdle /\ ContactIdle /\ SeedIdle /\ AppIdle /\ DocInit /\ PageIdle

NextDocs ==
    \/ MakeDoc /\ UNCHANGED <<loginVars, contactVars, seedVars, appVars, pageVars>>
    \/ NextDoc /\ UNCHANGED <<loginVars, contactVars, seedVars, appVars, pageVars>>

SpecDoc == InitDoc /\ [][NextDocs]_vars

InitPage == LoginIdle /\ ContactIdle /\ SeedIdle /\ AppIdle /\ DocIdle /\ PageInit

NextPage ==
    \/ ContactPage /\ UNCHANGED <<loginVars, contactVars, seedVars, appVars, docVars>>
    \/ PageRequest /\ UNCHANGED <<loginVars, contactVars, seedVars, appVars, docVars>>

SpecPage == InitPage /\ [][NextPage]_vars

----------------------------------------------------------------------------
(* Claims about POST /api/login *)

Done == pc = "done"

\* a field is missing when it is absent or the empty string
Missing(v) == v = Undef \/ v = Str(<<>>)

\* both fields of a parsed body are present
BothSupplied == req.body = "object" /\ ~Missing(req.email) /\ ~Missing(req.password)

\* a parsed body lacks the e-mail or the password
FieldMissing == req.body = "object" /\ (Missing(req.email) \/ Missing(req.password))

\* the user documents stored under the trimmed, lower-cased e-mail
StoredUnderEmail ==
    IF req.email.t = "string"
    THEN {u \in users : u.email = ToLowerCase(Trim(req.email.s))}
    ELSE {}

PasswordMatches(u) ==
    /\ u.password.t = "string"
    /\ req.password.t = "string"
    /\ u.password.s = Hash(req.password.s)

CorrectCredentials ==
    /\ BothSupplied
    /\ \E u \in StoredUnderEmail : PasswordMatches(u)

HasAuthCookie == response.cookie = "auth_token" /\ response.httpOnly

\* C1 as claimed: correct credentials always get 200 and the cookie
C1_Claimed == Done /\ CorrectCredentials => response.status = 200 /\ HasAuthCookie

\* C1 (amended): a request whose trimmed, lower-cased e-mail matches a stored
\* user with a password hash that the supplied password matches gets 200 with the HTTP-only auth_token cookie holding the
\* token signed for that user, unless a step of the handler throws, and then
\* it gets 500 without a cookie.
C1_LoginSucceeds ==
    Done /\ CorrectCredentials =>
        IF thrown = "none"
        THEN /\ response.status = 200
             /\ HasAuthCookie
             /\ response.token = token
             /\ \E u \in StoredUnderEmail :
                    token = [id |-> u.id, email |-> u.email] /\ response.userId = u.id
        ELSE response.status = 500 /\ response.cookie = "none"

C1_Witness ==
    /\ Done /\ CorrectCredentials /\ response.status = 200 /\ HasAuthCookie
    /\ req.email.s # normalizedEmail

\* the credential checks of the handler have all passed for this request
ChecksPassed ==
    /\ BothSupplied
    /\ user # NullUser
    /\ user \in users
    /\ user.email = normalizedEmail
    /\ PasswordMatches(user)

\* C2: the auth_token cookie is on the 200 response only (a 400, 401 or 500
\* response carries none), and jwt.sign is called at most once and only
\* after every credential check has passed.
C2_CookieOnlyOn200 ==
    /\ response.status # 200 => response.cookie = "none" /\ response.token = NoToken
    /\ response.status = 200 => HasAuthCookie
    /\ signCalls <= 1
    /\ (signCalls > 0 \/ token # NoToken \/ pc = "sign") => ChecksPassed

C2_Witness ==
    /\ Done /\ BothSupplied /\ response.status = 401 /\ user # NullUser
    /\ signCalls = 0 /\ response.cookie = "none"

\* no user is stored under the e-mail, or the stored user's hash does not
\* match the password
BadCredentials ==
    /\ BothSupplied
    /\ \/ StoredUnderEmail = {}
       \/ \E u \in StoredUnderEmail : ~Missing(u.password) /\ ~PasswordMatches(u)

Is401Invalid == response.status = 401 /\ response.message = "Invalid credentials"

\* C3 as claimed: unknown e-mail and wrong password always get the 401
C3_Claimed == Done /\ BadCredentials => Is401Invalid

\* C3 (amended): with both fields present, an e-mail no user is stored under
\* and a password the stored hash does not match get the same 401 "Invalid
\* credentials", unless a step of the handler throws (the lookup fails, or
\* the password is not a string), and then the response is 500.
C3_InvalidCredentials ==
    Done /\ BadCredentials =>
        IF thrown = "none" THEN Is401Invalid /\ response.cookie = "none"
        ELSE response.status = 500

C3_Witness ==
    /\ Done /\ BadCredentials /\ Is401Invalid
    /\ user # NullUser /\ req.password.t = "string"

C3_WitnessNoUser ==
    Done /\ BadCredentials /\ Is401Invalid /\ user = NullUser /\ thrown = "none"

C4_WitnessMissing ==
    Done /\ response.status = 400 /\ req.email = Str(<<>>) /\ ~Missing(req.password)

\* C5: a request gets no response while it is handled and exactly one, with
\* status 200, 400, 401 or 500, when the handler ends; an exception at any
\* step ends the handler with 500; and a handler that has not ended can
\* always take its next step (it ends after at most four).
C5_OneResponse ==
    /\ sent <= 1
    /\ pc \in {"idle", "parse", "lookup", "compare", "sign", "done"}
    /\ Done => sent = 1 /\ response.status \in {200, 400, 401, 500}
    /\ ~Done => sent = 0 /\ response = NoResponse /\ thrown = "none"
    /\ thrown # "none" => response.status = 500
    /\ Done /\ req.body # "object" => thrown = "json"
    /\ response.status = 500 => thrown # "none"
    /\ pc \notin {"idle", "done"} => ENABLED LoginStep

C5_Witness == Done /\ thrown = "sign" /\ response.status = 500 /\ sent = 1

C5_WitnessCompare == Done /\ thrown = "compare" /\ response.status = 500

C5_WitnessLookup == Done /\ thrown = "lookup" /\ response.status = 500

\* the request before this one was the same up to the form of its e-mail
Repeated ==
    /\ Done /\ last.seen /\ SameUpToEmailForm(last.req, req)
    /\ ~Missing(req.email) /\ ~Missing(last.req.email)

SameAnswer == response.status = last.status /\ response.userId = last.userId

----------------------------------------------------------------------------
(* Claims about POST /api/contact *)

CDone == cpc = "done"

RequiredPresent ==
    /\ creq.body = "object"
    /\ ~Missing(creq.firstName) /\ ~Missing(creq.lastName)
    /\ ~Missing(creq.email) /\ ~Missing(creq.message)

RequiredMissing ==
    /\ creq.body = "object"
    /\ \/ Missing(creq.firstName) \/ Missing(creq.lastName)
       \/ Missing(creq.email) \/ Missing(creq.message)

\* a string of the form local@domain.tld: one "@", no whitespace, something
\* before the "@", and after it a "." with something on either side
WellFormedEmail(s) ==
    /\ Cardinality({i \in 1..Len(s) : s[i] = "@"}) = 1
    /\ \A i \in 1..Len(s) : s[i] # " "
    /\ \E i \in 2..Len(s) :
          /\ s[i] = "@"
          /\ \E j \in (i + 2)..(Len(s) - 1) : s[j] = "."

OnlyInstitutionOmitted == RequiredPresent /\ Missing(creq.institution)

Forwarded ==
    /\ sendCalls = 1
    /\ payload.firstName = creq.firstName /\ payload.lastName = creq.lastName
    /\ payload.email = creq.email /\ payload.message = creq.message

\* C7: a request lacking firstName, lastName, email or message gets 400; a
\* request lacking only the institution is rejected only for the format of
\* its e-mail, and otherwise is forwarded to sendContactEmail with the other
\* fields as given and the institution "Not specified".
C7_RequiredFields ==
    /\ CDone /\ RequiredMissing =>
          /\ cresponse.status = 400
          /\ cresponse.message = "All fields are required"
          /\ sendCalls = 0
    /\ CDone /\ OnlyInstitutionOmitted =>
          IF WellFormedEmail(creq.email.s)
          THEN Forwarded /\ payload.institution = NotSpecified
               /\ cresponse.status # 400
          ELSE cresponse.status = 400 /\ sendCalls = 0
    /\ CDone /\ RequiredPresent /\ ~Missing(creq.institution) /\ sendCalls = 1 =>
          Forwarded /\ payload.institution = creq.institution

C7_Witness ==
    /\ CDone /\ OnlyInstitutionOmitted /\ creq.institution = Undef
    /\ Forwarded /\ payload.institution = NotSpecified /\ cresponse.status = 200

C7_WitnessMissing ==
    /\ CDone /\ cresponse.status = 400 /\ Missing(creq.email)
    /\ ~Missing(creq.firstName) /\ ~Missing(creq.lastName) /\ ~Missing(creq.message)

\* C8: sendContactEmail is called at most once for a request and only after
\* the required-field check and the e-mail format check have passed: a
\* request answered with 400 has caused no send, and a send that failed or
\* threw is not repeated.
C8_SendAfterChecks ==
    /\ sendCalls <= 1
    /\ (sendCalls > 0 \/ cpc = "send" \/ payload # NoPayload) =>
          RequiredPresent /\ WellFormedEmail(creq.email.s)
    /\ cresponse.status = 400 => sendCalls = 0 /\ emailResult = "none"
    /\ emailResult # "none" => sendCalls = 1 /\ CDone

C8_Witness ==
    CDone /\ emailResult = "failure" /\ sendCalls = 1 /\ cresponse.status = 500

C8_WitnessRejected ==
    /\ CDone /\ RequiredPresent /\ cresponse.status = 400 /\ sendCalls = 0
    /\ Len(creq.email.s) = MaxContactLen

\* C9: a request gets no response while it is handled and exactly one, with
\* status 200, 400 or 500, when the handler ends; the status is 200 exactly
\* when sendContactEmail was called and reported success; a send that
\* reports failure or throws gives 500; and a handler that has not ended can
\* always take its next step (it ends after at most two).
C9_OneResponse ==
    /\ csent <= 1
    /\ cpc \in {"idle", "validate", "send", "done"}
    /\ CDone => csent = 1 /\ cresponse.status \in {200, 400, 500}
    /\ ~CDone => csent = 0 /\ cresponse = NoResponse
    /\ CDone => (cresponse.status = 200 <=> sendCalls = 1 /\ emailResult = "success")
    /\ emailResult \in {"failure", "throw"} => cresponse.status = 500
    /\ cthrown # "none" => cresponse.status = 500
    /\ cpc \notin {"idle", "done"} => ENABLED ContactStep

C9_Witness == CDone /\ emailResult = "throw" /\ cthrown = "send" /\ cresponse.status = 500

C9_WitnessSuccess == CDone /\ emailResult = "success" /\ cresponse.status = 200

----------------------------------------------------------------------------
(* Claims about scripts/seed-observations.js *)

RunEnded == spc = "exited"

Succeeded(name) == \E k \in 1..Len(ops) : ops[k] = [op |-> name, ok |-> TRUE]

Failed(name) == \E k \in 1..Len(ops) : ops[k] = [op |-> name, ok |-> FALSE]

Calls(name) == Cardinality({k \in 1..Len(ops) : ops[k].op = name})

\* C10 as claimed: a run that connects issues one insertMany of 100 documents
C10_Claimed ==
    RunEnded /\ Succeeded("connect") => insertCalls = 1 /\ insertArg = totalDocs

\* what holds of every state of the seed script
C10_State ==
    /\ RunEnded /\ Succeeded("connect") /\ Succeeded("createIndex") =>
          /\ insertCalls = 1 /\ Calls("insertMany") = 1
          /\ insertArg = totalDocs
    /\ RunEnded /\ ~Succeeded("createIndex") => insertCalls = 0
    /\ insertCalls = Calls("insertMany") /\ insertCalls <= 1
    /\ \A k \in 1..Len(ops) :
          /\ ops[k].op \in {"connect", "createIndex", "insertMany", "close"}
          /\ ops[k].op = "insertMany" =>
                \E j \in 1..(k - 1) : ops[j] = [op |-> "createIndex", ok |-> TRUE]
    /\ collection[0] = PreExisting
    /\ \A r \in 1..MaxRuns :
          /\ collection[r] <= totalDocs
          /\ r > run => collection[r] = 0
    /\ Cardinality({r \in 1..MaxRuns : collection[r] = totalDocs}) = successRuns
    /\ Succeeded("insertMany") => collection[run] = totalDocs

\* no document of the collection is lost in a step
NoDocumentLost == \A r \in 0..MaxRuns : collection'[r] >= collection[r]

\* C10 (amended): a run that connects and whose index creation succeeds
\* issues exactly one insertMany call, carrying exactly 100 documents, after
\* the index creation has completed; a run whose index creation fails issues
\* none.  The script issues no other write, no step removes a document, and
\* every run whose insertMany succeeds adds exactly 100 documents, so n
\* successful runs add 100*n.
C10_OneInsertOf100 == C10_State /\ [][C10_State' /\ NoDocumentLost]_vars

C10_Witness ==
    /\ RunEnded /\ run = 2 /\ successRuns = 2 /\ exitCode = "unset"
    /\ collection[1] = totalDocs /\ collection[2] = totalDocs
    /\ insertCalls = 1 /\ insertArg = totalDocs

C10_WitnessIndexFails ==
    RunEnded /\ Succeeded("connect") /\ Failed("createIndex") /\ insertCalls = 0

----------------------------------------------------------------------------
(* Claims about the database name *)

\* the application has computed its connection string and the script has
\* passed its checks of the environment
BothResolved == mpc = "loaded" /\ spc \in {"connect", "exited"}

\* the database named in the path of MONGODB_URI, or undefined
UriDb == DbOfUri(envUri.s)

\* the database the application connects to, or undefined
AppDb == DbOfUri(cleanedUri.s)

\* the database the script seeds
SeedUses(name) == spc = "connect" /\ dbName = name

\* C11, as the specification states it: the application and the seed script
\* resolve the same database name from the same MONGODB_URI and MONGODB_DB:
\* the name in the path of the URI when there is one, MONGODB_DB when the
\* URI names none and MONGODB_DB is set.
C11_Claimed ==
    BothResolved =>
        /\ UriDb # Undef => AppDb = UriDb /\ SeedUses(UriDb)
        /\ UriDb = Undef /\ ~Missing(envDb) => AppDb = envDb /\ SeedUses(envDb)

----------------------------------------------------------------------------
(* Claims about connectDB *)

\* the mongoose.connect calls whose promise has not settled
Pending == {p \in Attempts : attempts[p] = "pending"}

\* the calls of connectDB suspended on promise p
SuspendedOn(p) == {reactions[p][k] : k \in 1..Len(reactions[p])}

\* the calls of connectDB whose continuation is queued
Queued == {jobs[k].caller : k \in 1..Len(jobs)}

\* at most one attempt is pending; the callers that are waiting while it is
\* pending all wait for it, and it is the cached promise; every caller that
\* has returned holds the one cached connection
OneAttempt ==
    /\ Cardinality(Pending) <= 1
    /\ \A p \in Pending :
         /\ cachedPromise = p
         /\ cachedConn = 0
         /\ \A c \in Callers : cstate[c] = "await" => c \in SuspendedOn(p) /\ awaits[c] = p
    /\ \A c \in Callers : cstate[c] = "returned" => got[c] # 0 /\ got[c] = cachedConn

\* no mongoose.connect call is made while an attempt is pending or a
\* connection is cached, and a cached connection is never replaced
NoSecondConnect ==
    /\ Pending # {} \/ cachedConn # 0 => connectCalls' = connectCalls
    /\ cachedConn # 0 => cachedConn' = cachedConn

C12_WitnessCached ==
    /\ connectCalls = 1
    /\ cachedConn = 1
    /\ \A c \in {1, 2} : cstate[c] = "returned" /\ got[c] = 1
    /\ \E c \in {1, 2} : awaits[c] = 0

\* the attempt p has failed and every continuation it woke has run
FailedAndDrained(p) == attempts[p] = "rejected" /\ \A k \in 1..Len(jobs) : jobs[k].promise # p

\* after a failed attempt every caller that awaited it has the error, the
\* attempt is no longer the cached promise, no connection is cached unless
\* an attempt resolved, and a pending attempt is the cached promise
AfterFailure ==
    /\ \A p \in Attempts : FailedAndDrained(p) =>
         /\ cachedPromise # p
         /\ \A c \in Callers : awaits[c] = p => cstate[c] = "threw"
    /\ cachedConn # 0 => attempts[cachedConn] = "resolved"
    /\ \A p \in Attempts : attempts[p] = "pending" => cachedPromise = p
    /\ \A c \in Callers : cstate[c] = "await" =>
         \/ attempts[awaits[c]] = "pending"
         \/ c \in Queued /\ ENABLED Resume

\* a reset of cached.promise drops a rejected promise only, and the first
\* call after a failure makes a new mongoose.connect call and waits for it
ResetAndRetry ==
    /\ cachedPromise # 0 /\ cachedPromise' = 0 => attempts[cachedPromise] = "rejected"
    /\ \A c \in Callers :
         /\ cstate[c] # "await" /\ cstate'[c] = "await"
         /\ connectCalls > 0 /\ FailedAndDrained(connectCalls)
         => /\ connectCalls' = connectCalls + 1
            /\ attempts'[connectCalls'] = "pending"
            /\ cachedPromise' = connectCalls'
            /\ awaits'[c] = connectCalls'

C13_WitnessRetry ==
    /\ attempts[1] = "rejected"
    /\ attempts[2] = "pending"
    /\ cachedPromise = 2
    /\ \E c \in Callers : cstate[c] = "threw" /\ awaits[c] = 1

----------------------------------------------------------------------------
(* Claims about the ways a run of the seed script ends *)

\* new MongoClient(uri) has been evaluated in this run
ClientCreated == clientState # "none"

\* a driver call of this run has thrown
SomeCallFailed == \E k \in 1..Len(ops) : ~ops[k].ok

\* C14: once the MongoClient has been created the client is closed on every
\* path, whether connect, index creation or insertMany succeeds or throws; a
\* thrown error sets the exit code to 1; "Done" is reached only when
\* insertMany succeeded.  A run that has created the client and not closed
\* it yet has a next step, and ends only after client.close().
C14_ClosedOnEveryPath ==
    /\ ClientCreated /\ RunEnded =>
         /\ clientState = "closed"
         /\ Calls("close") = 1
         /\ ops[Len(ops)].op = "close"
    /\ ClientCreated /\ clientState # "closed" => ~RunEnded /\ ENABLED SeedStep
    /\ SomeCallFailed => exitCode = "1" /\ ~seedDone
    /\ seedDone => Succeeded("insertMany") /\ ~SomeCallFailed

\* a run whose connect threw has closed the client and has exit code 1
C14_Witness ==
    /\ RunEnded /\ Failed("connect") /\ clientState = "closed" /\ exitCode = "1"
    /\ ~seedDone

\* a run whose insertMany threw has closed the client and has exit code 1
C14_WitnessInsertFails ==
    /\ RunEnded /\ Failed("insertMany") /\ clientState = "closed" /\ exitCode = "1"
    /\ ~seedDone

\* a run that reached "Done" has closed the client and has no exit code set
C14_WitnessDone ==
    /\ RunEnded /\ seedDone /\ Succeeded("insertMany") /\ clientState = "closed"
    /\ exitCode = "unset"

\* the script has passed its checks of the environment
PastChecks == spc \in {"connect", "exited"}

\* C15, as the specification states it: the script exits with code 1
\* without creating a client, connecting or writing anything when
\* MONGODB_URI is unset or empty, or when neither the path of the URI nor
\* MONGODB_DB gives a database name.
C15_Claimed ==
    PastChecks /\ (Missing(envUri) \/ (UriDb = Undef /\ Missing(envDb))) =>
        /\ RunEnded
        /\ exitCode = "1"
        /\ ~ClientCreated
        /\ ops = <<>>
        /\ collection = [r \in 0..MaxRuns |-> IF r = 0 THEN PreExisting ELSE 0]

----------------------------------------------------------------------------
(* Claims about the seeded documents *)

\* a document has been made in this iteration
DocMade == doc # NoDoc

\* the threat level the specification gives for a water quality, in tenths
ThreatFor(wq) ==
    CASE wq >= 75 -> "low"
      [] wq >= 55 /\ wq < 75 -> "medium"
      [] wq >= 35 /\ wq < 55 -> "high"
      [] wq < 35 -> "critical"

\* how grave a threat level is
Severity(level) ==
    CASE level = "low" -> 0
      [] level = "medium" -> 1
      [] level = "high" -> 2
      [] level = "critical" -> 3

\* C16: every seeded document has a waterQuality between 2.0 and 9.0, in
\* tenths, and a threatLevel determined by it alone: "low" from 7.5,
\* "medium" from 5.5 and below 7.5, "high" from 3.5 and below 5.5,
\* "critical" below 3.5; every value of the range has a level, and the level
\* of a document of higher waterQuality is never graver.
C16_ThreatByWaterQuality ==
    DocMade =>
        /\ doc.waterQuality \in 20..90
        /\ doc.threatLevel \in {"low", "medium", "high", "critical"}
        /\ doc.threatLevel = ThreatFor(doc.waterQuality)
        /\ \A r \in RandomDraws :
             LET wq == WaterQuality(r)
                 level == PickThreatByWaterQuality(wq)
             IN  /\ wq = doc.waterQuality => level = doc.threatLevel
                 /\ wq >= doc.waterQuality => Severity(level) <= Severity(doc.threatLevel)

\* a document of waterQuality 7.5 is "low"
C16_Witness == DocMade /\ doc.waterQuality = 75 /\ doc.threatLevel = "low"

\* a document of waterQuality 7.4 is "medium"
C16_WitnessMedium == DocMade /\ doc.waterQuality = 74 /\ doc.threatLevel = "medium"

\* a document of waterQuality 3.5 is "high"
C16_WitnessHigh == DocMade /\ doc.waterQuality = 35 /\ doc.threatLevel = "high"

\* the ends of the range: 2.0 is "critical"
C16_WitnessLowest == DocMade /\ doc.waterQuality = 20 /\ doc.threatLevel = "critical"

\* the ends of the range: 9.0, which only rounding up gives, is "low"
C16_WitnessHighest == DocMade /\ doc.waterQuality = 90 /\ doc.threatLevel = "low"

----------------------------------------------------------------------------
(* Claims about the contact page *)

\* the page has answered the request
PageDone == ppc \in {"redirected", "rendered"}

\* the request carries an auth_token cookie whose value is not empty
CarriesAuthToken == jar["auth_token"] # Undef /\ jar["auth_token"] # Str(<<>>)

\* C17: the contact page renders the contact section only when the request
\* carries a non-empty auth_token cookie; a request without the cookie, or
\* with an empty one, is always redirected to /try and never reaches the
\* contact section.  A request that has not been answered has a next step.
C17_AuthGate ==
    /\ "ContactSection" \in rendered => ppc = "rendered" /\ CarriesAuthToken
    /\ PageDone /\ ~CarriesAuthToken =>
         /\ ppc = "redirected"
         /\ location = "/try"
         /\ rendered = {}
    /\ PageDone /\ CarriesAuthToken =>
         /\ ppc = "rendered"
         /\ "ContactSection" \in rendered
         /\ location = "none"
    /\ ppc = "request" =>
         /\ rendered = {}
         /\ ENABLED (ContactPage /\ UNCHANGED <<loginVars, contactVars, seedVars,
                                                 appVars, docVars>>)

\* a request whose auth_token cookie is empty was redirected to /try
C17_Witness ==
    /\ jar["auth_token"] = Str(<<>>)
    /\ ppc = "redirected"
    /\ location = "/try"

\* a request without the cookie, carrying another cookie, was redirected
C17_WitnessAbsent ==
    /\ jar["auth_token"] = Undef
    /\ jar["theme"] = Str(<<"x">>)
    /\ ppc = "redirected"
    /\ location = "/try"

\* a request with a non-empty cookie got the contact section
C17_WitnessRendered ==
    /\ jar["auth_token"] = Str(<<"x", ".">>)
    /\ ppc = "rendered"
    /\ "ContactSection" \in rendered

====
